---- MODULE Spec2Model ----
(***************************************************************************)
(* A model of the multi-column block engine of obsidian-multi-column:     *)
(* the block parser (MultiColumnProcessor.parseConfigAndContent), the     *)
(* serializer and write-back of MultiColumnRenderChild (updateSourceInFile,*)
(* updateColumnWidthsInConfig, updateCodeBlockInFile) and the operations  *)
(* that mutate one render child (addColumn, removeColumn, reorderColumn,  *)
(* closeOverlay, the resize commit).                                      *)
(*                                                                         *)
(* Text.  A string is a sequence of tokens.  A token is one character     *)
(* ("a", ":", "\n", "7", ...) or one of the words the code compares       *)
(* whole: "columns", "columnWidths", the column marker "===column===",    *)
(* the code fence (three backquotes) and the language tag "multi-column". *)
(* The texts the                                                          *)
(* model ranges over are the concatenations of these tokens; on them      *)
(* split, trim, includes, startsWith, indexOf, parseInt, parseFloat and   *)
(* toFixed are computed token by token as the code computes them          *)
(* character by character.                                                *)
(*                                                                         *)
(* Numbers.  A width is a percentage held as an integer number of Units,  *)
(* Pct Units to one percentage point, so that the widths the code         *)
(* produces (100/n, values rounded to one decimal, measured widths taken  *)
(* to two decimals) are exact.  Widths are non-negative.                  *)
(***************************************************************************)
EXTENDS Integers, Sequences, FiniteSets, TLC

\* ------------------------------------------------------------------ tokens

NL == "\n"
Marker == "===column==="
\* The code fence, three backquotes.
Fence == "<fence>"
Lang == "multi-column"
Colon == ":"
Comma == ","
Space == " "
Dot == "."
Minus == "-"

\* JavaScript's undefined, as a column text: no text holds this token.
undefined == <<"undefined">>

Digit == {"0", "1", "2", "3", "4", "5", "6", "7", "8", "9"}

\* ----------------------------------------------------------------- numbers

\* One hundredth of a percentage point, in Units.  420000 Units = 100 %, and
\* 100/n is a whole number of Units for every n up to 8.
Hundredth == 2 * 3 * 7
Tenth == 10 * Hundredth
Pct == 10 * Tenth

Abs(x) == IF x < 0 THEN -x ELSE x

SetMin(S) == CHOOSE m \in S : \A k \in S : m <= k
SetMax(S) == CHOOSE m \in S : \A k \in S : m >= k

DigitVal(c) == CHOOSE d \in 0..9 : ToString(d) = c

\* String(n) for an integer n: its sign and its decimal digits.
RECURSIVE NumberToString(_)
NumberToString(n) ==
    IF n < 0 THEN <<Minus>> \o NumberToString(0 - n)
    ELSE IF n < 10 THEN <<ToString(n)>>
    ELSE NumberToString(n \div 10) \o <<ToString(n % 10)>>

\* The value of a run of digits.
RECURSIVE DigitsValue(_)
DigitsValue(ds) ==
    IF ds = <<>> THEN 0
    ELSE 10 * DigitsValue(SubSeq(ds, 1, Len(ds) - 1)) + DigitVal(ds[Len(ds)])

\* The length of the longest prefix of s, from index from on, made of digits.
DigitRun(s, from) ==
    LET stops == {i \in from..Len(s) : s[i] \notin Digit}
        end == IF stops = {} THEN Len(s) ELSE SetMin(stops) - 1
    IN  end - from + 1

\* The text behind a leading minus sign, and the sign.
Negative(s) == Len(s) >= 1 /\ s[1] = Minus
Unsigned(s) == IF Negative(s) THEN Tail(s) ELSE s

\* parseInt(s) of a trimmed string: an optional sign and the leading digits, NaN
\* when there are none.
parseInt(s) ==
    LET u == Unsigned(s)
        k == DigitRun(u, 1)
        v == DigitsValue(SubSeq(u, 1, k))
    IN  IF k = 0 THEN [nan |-> TRUE, val |-> 0]
        ELSE [nan |-> FALSE, val |-> IF Negative(s) THEN 0 - v ELSE v]

\* parseFloat(s) of a trimmed string, in Units: an optional sign, digits, then
\* optionally a dot and digits (two decimals are kept; the texts of the model hold
\* no more); NaN when neither the integer nor the fraction part has a digit.
parseFloat(s) ==
    LET u == Unsigned(s)
        k == DigitRun(u, 1)
        dot == Len(u) > k /\ u[k + 1] = Dot
        f == IF dot THEN DigitRun(u, k + 2) ELSE 0
        d1 == IF f >= 1 THEN DigitVal(u[k + 2]) ELSE 0
        d2 == IF f >= 2 THEN DigitVal(u[k + 3]) ELSE 0
        v == DigitsValue(SubSeq(u, 1, k)) * Pct + d1 * Tenth + d2 * Hundredth
    IN  IF k = 0 /\ f = 0 THEN [nan |-> TRUE, val |-> 0]
        ELSE [nan |-> FALSE, val |-> IF Negative(s) THEN 0 - v ELSE v]

\* w.toFixed(1): w rounded to the nearest tenth, written with one decimal.
toFixed1(w) ==
    LET t == (Abs(w) + (Tenth \div 2)) \div Tenth
    IN  (IF w < 0 THEN <<Minus>> ELSE <<>>)
        \o NumberToString(t \div 10) \o <<Dot, ToString(t % 10)>>

\* Math.round(p * 10) / 10 of a percentage p, in Units (round half up).
RoundTenth(p) == ((p + (Tenth \div 2)) \div Tenth) * Tenth

\* -------------------------------------------------------------------- text

Includes(s, tok) == \E i \in 1..Len(s) : s[i] = tok

\* s.split(sep): the pieces between the occurrences of sep.
RECURSIVE Split(_, _)
Split(s, sep) ==
    IF ~Includes(s, sep) THEN <<s>>
    ELSE LET i == SetMin({j \in 1..Len(s) : s[j] = sep})
         IN  <<SubSeq(s, 1, i - 1)>> \o Split(SubSeq(s, i + 1, Len(s)), sep)

\* s.trim(): the whitespace of a line is the space token.
Trim(s) ==
    LET nz == {i \in 1..Len(s) : s[i] # Space}
    IN  IF nz = {} THEN <<>> ELSE SubSeq(s, SetMin(nz), SetMax(nz))

\* line.startsWith('===column===').
StartsWithMarker(line) == Len(line) >= 1 /\ line[1] = Marker

EndsWithNL(s) == Len(s) >= 1 /\ s[Len(s)] = NL

\* The number of newlines that end s.
TrailingNL(s) ==
    LET nonNL == {i \in 1..Len(s) : s[i] # NL}
    IN  IF nonNL = {} THEN Len(s) ELSE Len(s) - SetMax(nonNL)

\* A variant of the collapse that leaves the text as it is.
KeepTrailing(s) == s

\* content.replace(/\n{3,}$/, '\n\n').
CollapseTrailing(s) ==
    IF TrailingNL(s) >= 3 THEN SubSeq(s, 1, Len(s) - TrailingNL(s)) \o <<NL, NL>>
    ELSE s

\* A variant of the strip that removes every final newline (s.replace(/\n+$/, '')).
StripEveryFinalNL(s) == SubSeq(s, 1, Len(s) - TrailingNL(s))

\* s.replace(/\n$/, ''): one final newline is removed.
StripFinalNL(s) == IF EndsWithNL(s) THEN SubSeq(s, 1, Len(s) - 1) ELSE s

\* hay.indexOf(needle), 1-based; 0 when needle does not occur (the code's -1).
IndexOf(hay, needle) ==
    LET hits == {i \in 1..(Len(hay) - Len(needle) + 1) :
                     SubSeq(hay, i, i + Len(needle) - 1) = needle}
    IN  IF hits = {} THEN 0 ELSE SetMin(hits)

\* A truthy column text: neither undefined nor the empty string.
Truthy(content) == content # undefined /\ content # <<>>

\* ------------------------------------------------------------------ parser

\* The config object parseConfigAndContent starts from.
DefaultConfig ==
    [columns |-> 2, columnWidths |-> <<50 * Pct, 50 * Pct>>,
     hasExplicitColumnWidths |-> FALSE]

\* value.split(',').map(w => parseFloat(w.trim())).filter(w => !isNaN(w)).
RECURSIVE ParseWidthList(_)
ParseWidthList(pieces) ==
    IF pieces = <<>> THEN <<>>
    ELSE LET w == parseFloat(Trim(Head(pieces)))
         IN  (IF w.nan THEN <<>> ELSE <<w.val>>) \o ParseWidthList(Tail(pieces))

\* A header line holding ':' (lines 30-37).
ParseConfigLine(config, line) ==
    LET parts == Split(line, Colon)
        key == Trim(parts[1])
        value == Trim(parts[2])
        n == parseInt(value)
    IN  IF key = <<"columns">> /\ value # <<>>
        THEN [config EXCEPT !.columns = IF n.nan \/ n.val = 0 THEN 2 ELSE n.val]
        ELSE IF key = <<"columnWidths">> /\ value # <<>>
        THEN [config EXCEPT !.columnWidths = ParseWidthList(Split(value, Comma)),
                            !.hasExplicitColumnWidths = TRUE]
        ELSE config

\* columnContents[i] += line + '\n', on an array that may be shorter than i: the
\* slots the assignment skips are holes, read as undefined.
AppendLine(contents, i, line) ==
    LET padded == contents \o [k \in 1..(i - Len(contents)) |-> undefined]
        old == IF padded[i] = undefined THEN <<>> ELSE padded[i]
    IN  [padded EXCEPT ![i] = old \o line \o <<NL>>]

\* A variant of the loop's turn that reads a line with ':' as config wherever it
\* stands.
ParseLineConfigAnywhere(st, line) ==
    IF Includes(line, Colon)
    THEN [st EXCEPT !.config = ParseConfigLine(st.config, line)]
    ELSE IF StartsWithMarker(line)
    THEN [st EXCEPT !.inColumnSection = TRUE, !.currentColumn = st.currentColumn + 1]
    ELSE IF st.inColumnSection
    THEN [st EXCEPT !.columnContents = AppendLine(st.columnContents, st.currentColumn, line)]
    ELSE st

\* One turn of the loop over the lines (lines 28-49).  currentColumn counts the
\* markers seen: the code's currentColumn + 1.
ParseLine(st, line) ==
    IF Includes(line, Colon) /\ ~st.inColumnSection
    THEN [st EXCEPT !.config = ParseConfigLine(st.config, line)]
    ELSE IF StartsWithMarker(line)
    THEN [st EXCEPT !.inColumnSection = TRUE, !.currentColumn = st.currentColumn + 1]
    ELSE IF st.inColumnSection
    THEN [st EXCEPT !.columnContents = AppendLine(st.columnContents, st.currentColumn, line)]
    ELSE st

RECURSIVE ParseLines(_, _)
ParseLines(st, lines) ==
    IF lines = <<>> THEN st ELSE ParseLines(ParseLine(st, Head(lines)), Tail(lines))

\* Lines 51-57: the trailing newlines of every truthy column.
CleanTrailing(contents) ==
    [i \in 1..Len(contents) |->
        IF Truthy(contents[i]) THEN CollapseTrailing(contents[i]) ELSE contents[i]]

\* A variant of the padding that also cuts the columns down to n.
PadColumnsExact(contents, n) ==
    IF Len(contents) > n THEN SubSeq(contents, 1, n)
    ELSE contents \o [k \in 1..(n - Len(contents)) |-> <<>>]

\* Lines 59-62, and 588-590: push '' until there are n columns.
PadColumns(contents, n) ==
    contents \o [k \in 1..(n - Len(contents)) |-> <<>>]

parseConfigAndContent(source) ==
    LET st == ParseLines([config |-> DefaultConfig, columnContents |-> <<>>,
                          currentColumn |-> 0, inColumnSection |-> FALSE],
                         Split(source, NL))
    IN  [config |-> st.config,
         columnContents |-> PadColumns(CleanTrailing(st.columnContents), st.config.columns)]

\* -------------------------------------------------------------- serializer

RECURSIVE JoinWidths(_)
JoinWidths(ws) ==
    IF ws = <<>> THEN <<>>
    ELSE IF Len(ws) = 1 THEN toFixed1(ws[1])
    ELSE toFixed1(ws[1]) \o <<Comma>> \o JoinWidths(Tail(ws))

\* A variant of the normalisation that leaves the columns as they are.
NormalizeColumnsNever(contents, n) == contents

\* Lines 588-594: columnContents padded or cut to config.columns entries;
\* slice(0, n) of a negative n drops the last -n entries.
NormalizeColumns(contents, n) ==
    IF Len(contents) < n THEN PadColumns(contents, n)
    ELSE IF Len(contents) > n
    THEN SubSeq(contents, 1, IF n >= 0 THEN n
                             ELSE IF Len(contents) + n > 0 THEN Len(contents) + n ELSE 0)
    ELSE contents

\* Lines 604-610: every column, behind its marker line.
RECURSIVE ColumnsText(_)
ColumnsText(contents) ==
    IF contents = <<>> THEN <<>>
    ELSE LET content == Head(contents)
         IN  <<Marker, NL>>
             \o (IF Truthy(content)
                 THEN content \o (IF EndsWithNL(content) THEN <<>> ELSE <<NL>>)
                 ELSE <<>>)
             \o ColumnsText(Tail(contents))

\* Lines 596-611: newSource of a config and its (normalized) columns.
SourceText(config, contents) ==
    StripFinalNL(
        <<"columns", Colon, Space>> \o NumberToString(config.columns) \o <<NL>>
        \o (IF "columnWidths" \in DOMAIN config
            THEN <<"columnWidths", Colon, Space>> \o JoinWidths(config.columnWidths) \o <<NL>>
            ELSE <<>>)
        \o ColumnsText(contents))

\* ------------------------------------------------------- arrays (0-based)

\* a[i] of a JavaScript array: undefined past its end.
At(a, i) == IF i < Len(a) THEN a[i + 1] ELSE undefined

\* a.splice(i, 1).
SpliceRemove(a, i) ==
    IF i < Len(a) THEN SubSeq(a, 1, i) \o SubSeq(a, i + 2, Len(a)) ELSE a

\* A variant of the insertion that puts the element one place further on.
SpliceInsertAfter(a, i, x) ==
    LET k == IF i + 1 < Len(a) THEN i + 1 ELSE Len(a)
    IN  SubSeq(a, 1, k) \o <<x>> \o SubSeq(a, k + 1, Len(a))

\* a.splice(i, 0, x): past the end the element is appended.
SpliceInsert(a, i, x) ==
    LET k == IF i < Len(a) THEN i ELSE Len(a)
    IN  SubSeq(a, 1, k) \o <<x>> \o SubSeq(a, k + 1, Len(a))

\* A variant of the assignment that ends the text with a newline.
ArraySetTerminated(a, i, x) ==
    LET padded == a \o [k \in 1..(i + 1 - Len(a)) |-> undefined]
    IN  [padded EXCEPT ![i + 1] = IF EndsWithNL(x) THEN x ELSE x \o <<NL>>]

\* a[i] = x on an array of column texts: the slots skipped are undefined.
ArraySet(a, i, x) ==
    LET padded == a \o [k \in 1..(i + 1 - Len(a)) |-> undefined]
    IN  [padded EXCEPT ![i + 1] = x]

\* new Array(n).fill(x).
Fill(n, x) == [k \in 1..n |-> x]

\* The fenced block of a source, as it stands in the document (lines 653, 656).
Wrap(source) == <<Fence, Lang, NL>> \o source \o <<NL, Fence>>

\* ------------------------------------------------------------------ widths

\* The flex-basis createMultiColumnContainer gives column i (0-based), lines 85-93.
ColumnWidth(config, i) ==
    IF "columnWidths" \in DOMAIN config /\ i < Len(config.columnWidths)
    THEN config.columnWidths[i + 1]
    ELSE (100 * Pct) \div config.columns

\* The percentages createMultiColumnContainer lays the columns out with.  A column
\* is measured (getBoundingClientRect) at its flex-basis.
createMultiColumnContainer(config) ==
    [k \in 1..config.columns |-> ColumnWidth(config, k - 1)]

\* The text loadColumnContents renders into column k - 1 (lines 223-327): that of
\* the model at the same index, or none.
loadColumnContents(config, contents) ==
    [k \in 1..config.columns |->
        IF At(contents, k - 1) = undefined THEN <<>> ELSE At(contents, k - 1)]

\* Lines 629-635: the measured widths, each rounded to one decimal.
MeasuredWidths(dom) == [k \in 1..Len(dom) |-> RoundTenth(dom[k])]

\* Lines 638-639: some width is more than one point away from 100 / columns.
HasCustomWidths(widths, columns) ==
    \E k \in 1..Len(widths) : Abs(widths[k] * columns - 100 * Pct) > Pct * columns

\* A variant of the capture that stores the widths as measured, without rounding.
updateColumnWidthsInConfigUnrounded(config, dom, laidOut) ==
    IF Len(dom) = 0 \/ ~laidOut THEN config
    ELSE IF HasCustomWidths(MeasuredWidths(dom), config.columns)
    THEN [config EXCEPT !.columnWidths = dom]
    ELSE config

\* updateColumnWidthsInConfig: the config after the capture of the rendered widths.
\* laidOut is FALSE when the container measures 0 wide.
updateColumnWidthsInConfig(config, dom, laidOut) ==
    IF Len(dom) = 0 \/ ~laidOut THEN config
    ELSE IF HasCustomWidths(MeasuredWidths(dom), config.columns)
    THEN [config EXCEPT !.columnWidths = MeasuredWidths(dom)]
    ELSE config

\* ------------------------------------------------------------------- bounds

\* Gestures the user begins on the block in one run: a click on an add or a delete
\* button, a click that opens the overlay, a drag, a resize.
MaxGestures == 2
\* Edits the user makes to the document outside the plugin.
MaxUserEdits == 1
\* Columns an instance may grow to (addColumn itself has no limit).
MaxColumns == 3
\* Pointer moves within one resize gesture.
MaxMoves == 1

\* null, for an index.
null == 0 - 1

\* -------------------------------------------------------------------- state

VARIABLES
    doc,                 \* editor.getValue(): the text of the document
    config,              \* MultiColumnRenderChild.config
    columnContents,      \* MultiColumnRenderChild.columnContents
    originalSource,      \* MultiColumnRenderChild.originalSource
    dom,                 \* the measured percentage of every .multi-column-item of the container
    rendered,            \* the text loadColumnContents has rendered into every one of them
    overlayEl,           \* TRUE while the edit overlay is open (overlayEl is not null)
    overlays,            \* the .multi-column-editor-overlay elements in document.body
    currentEditIndex,    \* MultiColumnRenderChild.currentEditIndex
    currentEditValue,    \* MultiColumnRenderChild.currentEditValue
    draggedColumnIndex,  \* MultiColumnRenderChild.draggedColumnIndex
    dropTargetIndex,     \* MultiColumnRenderChild.dropTargetIndex
    drag,                \* the native drag: "idle", "dragging", or "dropped" until its dragend
    resize,              \* the closure of startResize while the pointer is down on a resizer
    timers,              \* the pending 100 ms timeouts of updateCodeBlockInFile, oldest first
    renderTimers,        \* the pending 50 ms timeouts of handleDragEnd
    block,               \* where in doc the block this instance was parsed from stands
    last,                \* the last commit or write-back: what it was and how it went
    nOps, nUserEdits,    \* gestures begun and user edits made, against the bounds
    pb, ptext, pparsed, pphase,  \* the pure functions' input, results and stage
    pout,                \* the text serialized from what the parser returned
    inline               \* the render child with inline editors, its document and its clock

instanceVars == <<config, columnContents, originalSource>>
overlayVars == <<overlayEl, overlays, currentEditIndex, currentEditValue>>
gestureVars == <<draggedColumnIndex, dropTargetIndex, drag, resize>>
pureVars == <<pb, ptext, pparsed, pphase, pout>>
vars == <<doc, config, columnContents, originalSource, dom, rendered, overlayEl, overlays,
          currentEditIndex,
          currentEditValue, draggedColumnIndex, dropTargetIndex, drag, resize, timers,
          renderTimers,
          block, last, nOps, nUserEdits, pb, ptext, pparsed, pphase, pout, inline>>

\* ------------------------------------------------------------ initial state

\* Block sources as an author writes them.
SrcPlain ==
    <<"columns", Colon, Space, "2", NL, Marker, NL, "a", NL, Marker, NL, "b">>
SrcWide ==
    <<"columns", Colon, Space, "2", NL,
      "columnWidths", Colon, Space, "7", "0", Comma, "3", "0", NL,
      Marker, NL, "a", NL, Marker, NL, "b">>
SrcThree ==
    <<"columns", Colon, Space, "3", NL,
      "columnWidths", Colon, Space, "2", "0", Comma, "3", "0", Comma, "5", "0", NL,
      Marker, NL, "a", NL, Marker, NL, "b", NL, Marker, NL, "c">>
Sources == {SrcPlain, SrcWide, SrcThree}

\* The documents: the block between two paragraphs, or (SrcPlain) twice, the same
\* block pasted a second time, the instance being the render child of the first or
\* of the second.
Layouts == {"single", "first", "second"}
DocOf(src, layout) ==
    IF layout = "single" THEN <<"p", NL>> \o Wrap(src) \o <<NL, "q">>
    ELSE Wrap(src) \o <<NL>> \o Wrap(src)
BlockOf(src, layout) ==
    [start |-> IF layout = "single" THEN 3
               ELSE IF layout = "first" THEN 1 ELSE Len(Wrap(src)) + 2,
     len |-> Len(Wrap(src))]

NoResize ==
    [active |-> FALSE, index |-> 0, left |-> 0, right |-> 0, min |-> 0, moves |-> 0,
     stale |-> FALSE]
\* What last holds: the number of commits, refusals and write-backs so far, the
\* handler and its arguments, whether it went on to updateSourceInFile, whether
\* the container was laid out, whether a timeout was set, and, of a timeout,
\* whether it found its block.
Step(op) ==
    [seq |-> 0, op |-> op, a |-> null, b |-> null, committed |-> FALSE,
     laidOut |-> FALSE, scheduled |-> FALSE, hit |-> FALSE]

\* The record of a handler that has returned without a commit.
Returned(op, a, b) == [Step(op) EXCEPT !.seq = last.seq + 1, !.a = a, !.b = b]

\* The render child of the version with inline editors (part_005, lines 222-240)
\* on the source src, the document it stands in, the pending timeouts of
\* debouncedSave (saveTimers, by the time they are due) and of updateCodeBlockInFile
\* (writes, oldest first), and the clock, in milliseconds.  lastChange, burst, saved,
\* saves and changes record the last change, the changes not yet saved, the changes
\* the last save covered, and the saves and changes so far.
InlineChild(src) ==
    [config |-> [columns |-> parseConfigAndContent(src).config.columns],
     columnContents |-> parseConfigAndContent(src).columnContents,
     originalSource |-> src,
     doc |-> DocOf(src, "single"),
     saveTimers |-> {},
     writes |-> <<>>,
     now |-> 0,
     lastChange |-> [at |-> null, idx |-> null, val |-> <<>>],
     burst |-> 0, saved |-> 0, saves |-> 0, changes |-> 0]

\* The inline child at rest.
InlineIdle == inline = InlineChild(SrcPlain)

PureIdle ==
    /\ pb = [config |-> DefaultConfig, columnContents |-> <<>>]
    /\ ptext = <<>>
    /\ pparsed = [config |-> DefaultConfig, columnContents |-> <<>>]
    /\ pphase = "idle"
    /\ pout = <<>>

\* processCodeBlock and the constructor of MultiColumnRenderChild (lines 8-14, 196-208).
Init ==
    \E src \in Sources, layout \in Layouts :
        LET parsed == parseConfigAndContent(src)
        IN  /\ layout = "single" \/ src = SrcPlain
            /\ doc = DocOf(src, layout)
            /\ block = BlockOf(src, layout)
            /\ config = parsed.config
            /\ columnContents = parsed.columnContents
            /\ originalSource = src
            /\ dom = createMultiColumnContainer(parsed.config)
            /\ rendered = loadColumnContents(parsed.config, parsed.columnContents)
            /\ overlayEl = FALSE
            /\ overlays = 0
            /\ currentEditIndex = null
            /\ currentEditValue = <<>>
            /\ draggedColumnIndex = null
            /\ dropTargetIndex = null
            /\ drag = "idle"
            /\ resize = NoResize
            /\ timers = <<>>
            /\ renderTimers = 0
            /\ last = Step("init")
            /\ nOps = 0
            /\ nUserEdits = 0
            /\ PureIdle
            /\ InlineIdle

\* ------------------------------------------------------------- write-back

\* The handler whose timeout was set last and is still pending.
PendingOp == IF timers = <<>> THEN "none" ELSE timers[Len(timers)].op

\* A variant of updateCodeBlockInFile that clears the pending timeouts first, as a
\* debounce would.
updateCodeBlockInFileDebounced(op, newSource, activeView) ==
    IF activeView /\ IndexOf(doc, Wrap(originalSource)) # 0
    THEN <<[originalBlock |-> Wrap(originalSource), newBlock |-> Wrap(newSource),
            newSource |-> newSource, behind |-> Len(timers),
            op |-> op, after |-> PendingOp]>>
    ELSE timers

\* updateCodeBlockInFile up to its setTimeout (lines 645-662): the pending timeouts
\* after a commit of newSource.  activeView is FALSE when the workspace has no
\* active markdown view.  behind records how many timeouts were pending, op the
\* handler that has committed, and after the handler whose timeout was pending.
updateCodeBlockInFile(op, newSource, activeView) ==
    IF activeView /\ IndexOf(doc, Wrap(originalSource)) # 0
    THEN Append(timers, [originalBlock |-> Wrap(originalSource),
                         newBlock |-> Wrap(newSource),
                         newSource |-> newSource,
                         behind |-> Len(timers),
                         op |-> op, after |-> PendingOp])
    ELSE timers

\* Lines 667-669: content with the span of originalBlock at i replaced by newBlock.
ReplaceBlock(content, i, originalBlock, newBlock) ==
    SubSeq(content, 1, i - 1) \o newBlock
        \o SubSeq(content, i + Len(originalBlock), Len(content))

\* A variant of the write-back that splices without looking at what indexOf gave.
WriteBackUnchecked(content, t) ==
    ReplaceBlock(content, IndexOf(content, t.originalBlock), t.originalBlock, t.newBlock)

\* A variant of the write-back that reads the instance when the timeout fires: it
\* looks for this.originalSource and inserts the serialization of the columns as
\* they then are.
WriteBackCurrent(content, t) ==
    LET currentBlockIndex == IndexOf(content, Wrap(originalSource))
    IN  IF currentBlockIndex # 0
        THEN ReplaceBlock(content, currentBlockIndex, Wrap(originalSource),
                          Wrap(SourceText(config, columnContents)))
        ELSE content

\* The document after the timeout t has run (lines 663-676).
WriteBack(content, t) ==
    LET currentBlockIndex == IndexOf(content, t.originalBlock)
    IN  IF currentBlockIndex # 0
        THEN ReplaceBlock(content, currentBlockIndex, t.originalBlock, t.newBlock)
        ELSE content

\* updateSourceInFile (lines 583-613) on the config cfg and the columns contents
\* that the calling handler has produced.
updateSourceInFile(op, a, b, cfg, contents, laidOut, activeView) ==
    LET config1 == updateColumnWidthsInConfig(cfg, dom, laidOut)
        contents1 == NormalizeColumns(contents, config1.columns)
        timers1 == updateCodeBlockInFile(op, SourceText(config1, contents1), activeView)
    IN  /\ config' = config1
        /\ columnContents' = contents1
        /\ timers' = timers1
        /\ last' = [seq |-> last.seq + 1, op |-> op, a |-> a, b |-> b, committed |-> TRUE,
                    laidOut |-> laidOut, scheduled |-> timers1 # timers, hit |-> FALSE]

\* The span of the instance's own block after a write at index i.
BlockAfterWrite(i, t) ==
    IF i = block.start THEN [block EXCEPT !.len = Len(t.newBlock)]
    ELSE IF i < block.start
    THEN [block EXCEPT !.start = @ + Len(t.newBlock) - Len(t.originalBlock)]
    ELSE block

\* A variant of the callback that never updates this.originalSource.
OriginalKept(i, t) == originalSource

\* this.originalSource after the callback that found the block at i, 0 for not
\* found (line 672).
OriginalAfterWrite(i, t) == IF i # 0 THEN t.newSource ELSE originalSource

\* The callback of the timeout of updateCodeBlockInFile (lines 662-677).  Timeouts
\* of one delay run in the order they were set.
Timeout ==
    /\ timers # <<>>
    /\ LET t == Head(timers)
           i == IndexOf(doc, t.originalBlock)
       IN  /\ timers' = Tail(timers)
           /\ doc' = WriteBack(doc, t)
           /\ originalSource' = OriginalAfterWrite(i, t)
           /\ block' = IF i # 0 THEN BlockAfterWrite(i, t) ELSE block
           /\ last' = [Step("timeout") EXCEPT !.seq = last.seq + 1, !.hit = (i # 0)]
    /\ UNCHANGED <<config, columnContents, dom, rendered, overlayVars, gestureVars, renderTimers,
                   nOps, nUserEdits, pureVars, inline>>

\* The user types one character into the document, after its first p tokens.
UserEdit(p) ==
    /\ nUserEdits < MaxUserEdits
    /\ doc' = SubSeq(doc, 1, p) \o <<"u">> \o SubSeq(doc, p + 1, Len(doc))
    /\ block' = IF p < block.start THEN [block EXCEPT !.start = @ + 1]
                ELSE IF p < block.start + block.len - 1 THEN [block EXCEPT !.len = @ + 1]
                ELSE block
    /\ nUserEdits' = nUserEdits + 1
    /\ UNCHANGED <<instanceVars, dom, rendered, overlayVars, gestureVars, timers, renderTimers,
                   last, nOps, pureVars, inline>>

\* -------------------------------------------------------------- add, remove

PointerFree == drag = "idle" /\ ~resize.active

\* A gesture begins: one more of the MaxGestures of the run.
BeginGesture == nOps < MaxGestures /\ nOps' = nOps + 1

\* The config with n columns of equal width (lines 444-445, 457-458).
EqualSplit(cfg, n) ==
    [cfg EXCEPT !.columns = n, !.columnWidths = Fill(n, (100 * Pct) \div n)]

\* The click on an add button of the rendered column columnIndex (lines 449-460).
addColumn(columnIndex, position, laidOut, activeView) ==
    /\ PointerFree
    /\ BeginGesture
    /\ config.columns < MaxColumns
    /\ LET insertIndex == IF position = "left" THEN columnIndex ELSE columnIndex + 1
       IN  updateSourceInFile("addColumn", columnIndex, insertIndex,
                              EqualSplit(config, config.columns + 1),
                              SpliceInsert(columnContents, insertIndex, <<>>),
                              laidOut, activeView)
    /\ UNCHANGED <<doc, originalSource, dom, rendered, overlayVars, gestureVars, renderTimers,
                   block, nUserEdits, pureVars, inline>>

\* A variant of removeColumn without the test of line 439.
removeColumnUnguarded(columnIndex, laidOut, activeView) ==
    /\ PointerFree
    /\ BeginGesture
    /\ Len(dom) > 1
    /\ updateSourceInFile("removeColumn", columnIndex, null,
                          EqualSplit(config, config.columns - 1),
                          SpliceRemove(columnContents, columnIndex),
                          laidOut, activeView)
    /\ UNCHANGED <<doc, originalSource, dom, rendered, overlayVars, gestureVars, renderTimers,
                   block, nUserEdits, pureVars, inline>>

\* The click on the delete button of the rendered column columnIndex (lines
\* 437-447); the button is rendered when the instance had more than one column.
removeColumn(columnIndex, laidOut, activeView) ==
    /\ PointerFree
    /\ BeginGesture
    /\ Len(dom) > 1
    /\ IF config.columns <= 1
       THEN /\ last' = Returned("removeColumn", columnIndex, null)
            /\ UNCHANGED <<config, columnContents, timers>>
       ELSE updateSourceInFile("removeColumn", columnIndex, null,
                               EqualSplit(config, config.columns - 1),
                               SpliceRemove(columnContents, columnIndex),
                               laidOut, activeView)
    /\ UNCHANGED <<doc, originalSource, dom, rendered, overlayVars, gestureVars, renderTimers,
                   block, nUserEdits, pureVars, inline>>

\* ----------------------------------------------------------- edit overlay

\* The texts typed into the overlay editor: nothing, a word, a line that reads as
\* the column marker.
EditValues == {<<>>, <<"z">>, <<Marker>>}

\* A variant of openEditorOverlay without the closeOverlay of line 333: the overlay
\* that was open stays in the document.
openEditorOverlayKeepsOverlay(index) ==
    /\ PointerFree
    /\ IF currentEditIndex = index /\ overlayEl
       THEN UNCHANGED <<overlayVars, nOps>>
       ELSE /\ BeginGesture
            /\ overlayEl' = TRUE
            /\ overlays' = overlays + 1
            /\ currentEditIndex' = index
            /\ currentEditValue' = IF At(columnContents, index) = undefined THEN <<>>
                                   ELSE At(columnContents, index)
    /\ UNCHANGED <<doc, instanceVars, dom, rendered, gestureVars, timers, renderTimers, block,
                   last, nUserEdits, pureVars, inline>>

\* A variant of openEditorOverlay without the return of line 332: the overlay is
\* opened anew on the column it is open on.
openEditorOverlayReopens(index) ==
    /\ PointerFree
    /\ BeginGesture
    /\ overlayEl' = TRUE
    /\ overlays' = 1
    /\ currentEditIndex' = index
    /\ currentEditValue' = IF At(columnContents, index) = undefined THEN <<>>
                           ELSE At(columnContents, index)
    /\ UNCHANGED <<doc, instanceVars, dom, rendered, gestureVars, timers, renderTimers, block,
                   last, nUserEdits, pureVars, inline>>

\* The click on the rendered column index (lines 330-398): the overlay open on
\* another column is closed without a save (line 333) and a new one is appended to
\* document.body (line 378).
openEditorOverlay(index) ==
    /\ PointerFree
    /\ IF currentEditIndex = index /\ overlayEl
       THEN UNCHANGED <<overlayVars, nOps>>
       ELSE /\ BeginGesture
            /\ overlayEl' = TRUE
            /\ overlays' = 1
            /\ currentEditIndex' = index
            /\ currentEditValue' = IF At(columnContents, index) = undefined THEN <<>>
                                   ELSE At(columnContents, index)
    /\ UNCHANGED <<doc, instanceVars, dom, rendered, gestureVars, timers, renderTimers, block,
                   last, nUserEdits, pureVars, inline>>

\* The onChange callback of the overlay's editor (lines 382-384).
onChange(val) ==
    /\ overlayEl
    /\ currentEditValue' = val
    /\ UNCHANGED <<doc, instanceVars, dom, rendered, overlayEl, overlays, currentEditIndex,
                   gestureVars, timers,
                   renderTimers, block, last, nOps, nUserEdits, pureVars, inline>>

\* A variant of closeOverlay that persists the buffer whatever commit is.
closeOverlayAlwaysSaves(commit, laidOut, activeView) ==
    /\ overlayEl
    /\ updateSourceInFile("closeOverlay", currentEditIndex, null, config,
                          ArraySet(columnContents, currentEditIndex, currentEditValue),
                          laidOut, activeView)
    /\ overlayEl' = FALSE
    /\ overlays' = overlays - 1
    /\ currentEditIndex' = null
    /\ UNCHANGED <<doc, originalSource, dom, rendered, currentEditValue, gestureVars, renderTimers,
                   block, nOps, nUserEdits, pureVars, inline>>

\* closeOverlay (lines 415-435), as the Save button and the click outside call it
\* (commit) and as the Cancel button and the Escape key call it (no commit).
closeOverlay(commit, laidOut, activeView) ==
    /\ overlayEl
    /\ IF commit /\ currentEditIndex # null
       THEN updateSourceInFile("closeOverlay", currentEditIndex, null, config,
                               ArraySet(columnContents, currentEditIndex, currentEditValue),
                               laidOut, activeView)
       ELSE /\ last' = Returned("closeOverlay", currentEditIndex, null)
            /\ UNCHANGED <<config, columnContents, timers>>
    /\ overlayEl' = FALSE
    /\ overlays' = overlays - 1
    /\ currentEditIndex' = null
    /\ UNCHANGED <<doc, originalSource, dom, rendered, currentEditValue, gestureVars, renderTimers,
                   block, nOps, nUserEdits, pureVars, inline>>

\* ------------------------------------------------------------------ reorder

\* A variant of reorderColumn that exchanges the two columns.
MoveColumnSwap(contents, fromIndex, toIndex) ==
    [k \in 1..Len(contents) |->
        IF k = fromIndex + 1 THEN contents[toIndex + 1]
        ELSE IF k = toIndex + 1 THEN contents[fromIndex + 1]
        ELSE contents[k]]

\* The columns after reorderColumn (lines 547-549).
MoveColumn(contents, fromIndex, toIndex) ==
    LET movedContent == IF Truthy(At(contents, fromIndex)) THEN At(contents, fromIndex)
                        ELSE <<>>
    IN  SpliceInsert(SpliceRemove(contents, fromIndex), toIndex, movedContent)

\* The config after reorderColumn (lines 552-556).
MoveWidth(cfg, fromIndex, toIndex) ==
    IF "columnWidths" \in DOMAIN cfg
       /\ Len(cfg.columnWidths) > (IF fromIndex > toIndex THEN fromIndex ELSE toIndex)
    THEN [cfg EXCEPT !.columnWidths =
              SpliceInsert(SpliceRemove(@, fromIndex), toIndex, @[fromIndex + 1])]
    ELSE cfg

\* dragstart on the rendered column columnIndex (lines 485-497).  A press of the
\* pointer outside the overlay has closed it (handleOutsideClick) before a drag starts.
handleDragStart(columnIndex) ==
    /\ PointerFree
    /\ ~overlayEl
    /\ BeginGesture
    /\ draggedColumnIndex' = columnIndex
    /\ drag' = "dragging"
    /\ UNCHANGED <<doc, instanceVars, dom, rendered, overlayVars, dropTargetIndex, resize, timers,
                   renderTimers, block, last, nUserEdits, pureVars, inline>>

\* dragover on a rendered column (lines 499-504): only the event is touched.
handleDragOver(columnIndex) ==
    /\ drag = "dragging"
    /\ UNCHANGED vars

\* dragenter on the rendered column columnIndex (lines 506-516).
handleDragEnter(columnIndex) ==
    /\ drag = "dragging"
    /\ dropTargetIndex' = IF draggedColumnIndex = columnIndex THEN dropTargetIndex
                          ELSE columnIndex
    /\ UNCHANGED <<doc, instanceVars, dom, rendered, overlayVars, draggedColumnIndex, drag, resize,
                   timers, renderTimers, block, last, nOps, nUserEdits, pureVars, inline>>

\* dragleave on the rendered column columnIndex (lines 518-528); leaving is FALSE
\* when the pointer has only moved to a child of the column.
handleDragLeave(columnIndex, leaving) ==
    /\ drag = "dragging"
    /\ dropTargetIndex' = IF leaving /\ dropTargetIndex = columnIndex THEN null
                          ELSE dropTargetIndex
    /\ UNCHANGED <<doc, instanceVars, dom, rendered, overlayVars, draggedColumnIndex, drag, resize,
                   timers, renderTimers, block, last, nOps, nUserEdits, pureVars, inline>>

\* A variant of handleDrop without the test of line 538 for the dragged column.
handleDropAnywhere(dropIndex, laidOut, activeView) ==
    /\ drag = "dragging"
    /\ drag' = "dropped"
    /\ updateSourceInFile("reorderColumn", draggedColumnIndex, dropIndex,
                          MoveWidth(config, draggedColumnIndex, dropIndex),
                          MoveColumn(columnContents, draggedColumnIndex, dropIndex),
                          laidOut, activeView)
    /\ UNCHANGED <<doc, originalSource, dom, rendered, overlayVars, draggedColumnIndex,
                   dropTargetIndex, resize, renderTimers, block, nOps, nUserEdits,
                   pureVars, inline>>

\* drop on the rendered column dropIndex (lines 530-560), at the end of a drag that
\* began on this instance or, with no dragstart recorded here, of one that began
\* elsewhere.
handleDrop(dropIndex, laidOut, activeView) ==
    /\ drag = "dragging" \/ (drag = "idle" /\ ~resize.active)
    \* the return of line 539 reads neither the layout nor the view: one case of them
    /\ (draggedColumnIndex = null \/ draggedColumnIndex = dropIndex)
           => (laidOut /\ activeView)
    /\ drag' = IF drag = "dragging" THEN "dropped" ELSE drag
    /\ IF draggedColumnIndex = null \/ draggedColumnIndex = dropIndex
       THEN UNCHANGED <<config, columnContents, timers, last>>
       ELSE updateSourceInFile("reorderColumn", draggedColumnIndex, dropIndex,
                               MoveWidth(config, draggedColumnIndex, dropIndex),
                               MoveColumn(columnContents, draggedColumnIndex, dropIndex),
                               laidOut, activeView)
    /\ UNCHANGED <<doc, originalSource, dom, rendered, overlayVars, draggedColumnIndex,
                   dropTargetIndex, resize, renderTimers, block, nOps, nUserEdits,
                   pureVars, inline>>

\* A variant of dragend that leaves draggedColumnIndex as it is.
handleDragEndKeepsIndex ==
    /\ drag # "idle"
    /\ drag' = "idle"
    /\ dropTargetIndex' = null
    /\ renderTimers' = renderTimers + 1
    /\ UNCHANGED <<doc, instanceVars, dom, rendered, overlayVars, draggedColumnIndex, resize,
                   timers, block, last, nOps, nUserEdits, pureVars, inline>>

\* dragend (lines 562-581): the drag state is reset and a render is set for 50 ms on.
handleDragEnd ==
    /\ drag # "idle"
    /\ drag' = "idle"
    /\ draggedColumnIndex' = null
    /\ dropTargetIndex' = null
    /\ renderTimers' = renderTimers + 1
    /\ UNCHANGED <<doc, instanceVars, dom, rendered, overlayVars, resize, timers, block, last, nOps,
                   nUserEdits, pureVars, inline>>

\* The callback of the timeout of handleDragEnd: render() (lines 210-220).  The
\* columns a resize in progress holds are then no longer those of the container.
RenderTimeout ==
    /\ renderTimers > 0
    /\ renderTimers' = renderTimers - 1
    /\ dom' = createMultiColumnContainer(config)
    /\ rendered' = loadColumnContents(config, columnContents)
    /\ resize' = IF resize.active THEN [resize EXCEPT !.stale = TRUE] ELSE resize
    /\ UNCHANGED <<doc, instanceVars, overlayVars, draggedColumnIndex, dropTargetIndex,
                   drag, timers, block,
                   last, nOps, nUserEdits, pureVars, inline>>

\* ------------------------------------------------------------------- resize

\* The widths of the track in pixels, and what the pointer moves by, as a
\* percentage of the track (deltaX / totalWidth * 100), in Units.
TrackWidths == {500, 1000}
Deltas == {0 - 1995 * Hundredth, 104 * Hundredth, 20 * Pct}

\* minWidthPercent (line 139): 100px as a percentage of the track.
MinWidthPercent(totalWidth) == (100 * 100 * Pct) \div totalWidth

\* mousedown on the resizer after the rendered column resizerIndex (lines 116-139,
\* 173-176).
startResize(resizerIndex, totalWidth) ==
    /\ PointerFree
    /\ ~overlayEl
    /\ BeginGesture
    /\ resizerIndex + 1 < Len(dom)
    \* every column is rendered with a min-width of 100px (line 94)
    /\ \A k \in 1..Len(dom) : dom[k] >= MinWidthPercent(totalWidth)
    /\ resize' = [active |-> TRUE, index |-> resizerIndex,
                  left |-> dom[resizerIndex + 1], right |-> dom[resizerIndex + 2],
                  min |-> MinWidthPercent(totalWidth), moves |-> 0, stale |-> FALSE]
    /\ UNCHANGED <<doc, instanceVars, dom, rendered, overlayVars, draggedColumnIndex, dropTargetIndex,
                   drag, timers,
                   renderTimers, block, last, nUserEdits, pureVars, inline>>

\* A variant of the move that applies the delta without the minimum.
ResizedPairUnclamped(r, deltaPercent) ==
    <<r.left + deltaPercent, r.right - deltaPercent>>

\* A variant of the move that holds a column at the minimum without giving the
\* rest to its neighbour.
ResizedPairNoCompensate(r, deltaPercent) ==
    <<IF r.left + deltaPercent < r.min THEN r.min ELSE r.left + deltaPercent,
      IF r.right - deltaPercent < r.min THEN r.min ELSE r.right - deltaPercent>>

\* The two percentages onMouseMove sets (lines 142-155).
ResizedPair(r, deltaPercent) ==
    LET newLeft == r.left + deltaPercent
        newRight == r.right - deltaPercent
        total == r.left + r.right
    IN  IF newLeft < r.min THEN <<r.min, total - r.min>>
        ELSE IF newRight < r.min THEN <<total - r.min, r.min>>
        ELSE <<newLeft, newRight>>

\* mousemove during a resize (lines 141-159).
onMouseMove(deltaPercent) ==
    /\ resize.active
    /\ resize.moves < MaxMoves
    /\ resize' = [resize EXCEPT !.moves = @ + 1]
    /\ dom' = IF resize.stale THEN dom
              ELSE [dom EXCEPT ![resize.index + 1] = ResizedPair(resize, deltaPercent)[1],
                               ![resize.index + 2] = ResizedPair(resize, deltaPercent)[2]]
    /\ UNCHANGED <<doc, instanceVars, rendered, overlayVars, draggedColumnIndex,
                   dropTargetIndex, drag, timers, renderTimers, block, last, nOps,
                   nUserEdits, pureVars, inline>>

\* A variant of mouseup that saves nothing when the pointer has not moved.
onMouseUpIfMoved(laidOut, activeView) ==
    /\ resize.active
    /\ resize' = NoResize
    /\ IF resize.moves = 0
       THEN /\ last' = Returned("onMouseUp", resize.index, 0)
            /\ UNCHANGED <<config, columnContents, timers>>
       ELSE updateSourceInFile("onMouseUp", resize.index, resize.moves,
                               updateColumnWidthsInConfig(config, dom, laidOut),
                               columnContents, laidOut, activeView)
    /\ UNCHANGED <<doc, originalSource, dom, rendered, overlayVars, draggedColumnIndex, dropTargetIndex,
                   drag, renderTimers, block, nOps, nUserEdits, pureVars, inline>>

\* mouseup (lines 161-171) and the onResizeComplete of render (lines 214-217); the
\* record keeps the number of moves the gesture had.
onMouseUp(laidOut, activeView) ==
    /\ resize.active
    /\ resize' = NoResize
    /\ updateSourceInFile("onMouseUp", resize.index, resize.moves,
                          updateColumnWidthsInConfig(config, dom, laidOut),
                          columnContents, laidOut, activeView)
    /\ UNCHANGED <<doc, originalSource, dom, rendered, overlayVars, draggedColumnIndex, dropTargetIndex,
                   drag,
                   renderTimers, block, nOps, nUserEdits, pureVars, inline>>

\* --------------------------------------------------------------------- spec

RenderedIndex == 0..(Len(dom) - 1)

\* Where the user types: at the start of the document, or inside the block of the
\* instance.
EditPositions == {0, block.start + 2}

Next ==
    \/ \E i \in RenderedIndex, position \in {"left", "right"}, laidOut, activeView \in BOOLEAN :
           addColumn(i, position, laidOut, activeView)
    \/ \E i \in RenderedIndex, laidOut, activeView \in BOOLEAN :
           removeColumn(i, laidOut, activeView)
    \/ \E i \in RenderedIndex : openEditorOverlay(i)
    \/ \E val \in EditValues : onChange(val)
    \/ \E commit, laidOut, activeView \in BOOLEAN : closeOverlay(commit, laidOut, activeView)
    \/ \E i \in RenderedIndex : handleDragStart(i)
    \/ \E i \in RenderedIndex : handleDragOver(i)
    \/ \E i \in RenderedIndex : handleDragEnter(i)
    \/ \E i \in RenderedIndex, leaving \in BOOLEAN : handleDragLeave(i, leaving)
    \/ \E i \in RenderedIndex, laidOut, activeView \in BOOLEAN :
           handleDrop(i, laidOut, activeView)
    \/ handleDragEnd
    \/ RenderTimeout
    \/ \E i \in RenderedIndex, totalWidth \in TrackWidths : startResize(i, totalWidth)
    \/ \E deltaPercent \in Deltas : onMouseMove(deltaPercent)
    \/ \E laidOut, activeView \in BOOLEAN : onMouseUp(laidOut, activeView)
    \/ Timeout
    \/ \E p \in EditPositions : UserEdit(p)

Spec == Init /\ [][Next]_vars

\* --------------------------------------------- the parser and the serializer

\* The instances and texts the pure functions are applied to: up to MaxPureColumns
\* columns whose texts, over PureAlphabet, hold up to MaxPureLength tokens in all.
MaxPureColumns == 3
MaxPureLength == 4
PureAlphabet == {"a", NL, Marker, Colon}

RECURSIVE TextsUpTo(_)
TextsUpTo(k) ==
    IF k = 0 THEN {<<>>}
    ELSE LET shorter == TextsUpTo(k - 1)
         IN  shorter \cup {Append(t, c) : t \in {x \in shorter : Len(x) = k - 1},
                                          c \in PureAlphabet}
PureTexts == TextsUpTo(MaxPureLength)

RECURSIVE ColumnLists(_, _)
ColumnLists(n, budget) ==
    IF n = 0 THEN {<<>>}
    ELSE UNION {{<<t>> \o rest : rest \in ColumnLists(n - 1, budget - Len(t))} :
                    t \in {x \in PureTexts : Len(x) <= budget}}

\* The block text updateSourceInFile builds for an instance (lines 587-611).
Serialize(instance) ==
    SourceText(instance.config,
               NormalizeColumns(instance.columnContents, instance.config.columns))

mainVars == <<doc, config, columnContents, originalSource, dom, rendered,
              overlayEl, overlays, currentEditIndex,
              currentEditValue, draggedColumnIndex, dropTargetIndex, drag, resize, timers,
          renderTimers,
              block, last, nOps, nUserEdits>>

\* The instance at rest while the pure functions are applied.
MainIdle ==
    /\ doc = DocOf(SrcPlain, "single")
    /\ block = BlockOf(SrcPlain, "single")
    /\ config = parseConfigAndContent(SrcPlain).config
    /\ columnContents = parseConfigAndContent(SrcPlain).columnContents
    /\ originalSource = SrcPlain
    /\ dom = createMultiColumnContainer(parseConfigAndContent(SrcPlain).config)
    /\ rendered = loadColumnContents(parseConfigAndContent(SrcPlain).config,
                                     parseConfigAndContent(SrcPlain).columnContents)
    /\ overlayEl = FALSE
    /\ overlays = 0
    /\ currentEditIndex = null
    /\ currentEditValue = <<>>
    /\ draggedColumnIndex = null
    /\ dropTargetIndex = null
    /\ drag = "idle"
    /\ resize = NoResize
    /\ timers = <<>>
    /\ renderTimers = 0
    /\ last = Step("init")
    /\ nOps = 0
    /\ nUserEdits = 0

InitPure ==
    /\ \E n \in 1..MaxPureColumns : \E texts \in ColumnLists(n, MaxPureLength) :
           pb = [config |-> EqualSplit(DefaultConfig, n), columnContents |-> texts]
    /\ ptext = <<>>
    /\ pparsed = [config |-> DefaultConfig, columnContents |-> <<>>]
    /\ pphase = "instance"
    /\ pout = <<>>
    /\ MainIdle
    /\ InlineIdle

\* The serializer applied to the instance.
SerializeStep ==
    /\ pphase = "instance"
    /\ ptext' = Serialize(pb)
    /\ pphase' = "text"
    /\ UNCHANGED <<pb, pparsed, pout, mainVars, inline>>

\* The parser applied to the text.
ParseStep ==
    /\ pphase = "text"
    /\ pparsed' = parseConfigAndContent(ptext)
    /\ pphase' = "parsed"
    /\ UNCHANGED <<pb, ptext, pout, mainVars, inline>>

NextPure == SerializeStep \/ ParseStep

SpecPure == InitPure /\ [][NextPure]_vars

\* ------------------------------------------------ the parser on source texts

\* Sources have up to MaxParseColumns in their columns line and up to
\* MaxParseSections marker lines.
MaxParseColumns == 3
MaxParseSections == 3

\* What may stand behind "columns:" in a source.
ColumnsValues ==
    {NumberToString(n) : n \in 1..MaxParseColumns}
        \cup {<<>>, <<"0">>, <<Minus, "2">>, <<"x">>, <<"2", "x">>, <<"2", Dot, "5">>}

ColumnsLines == {<<"columns", Colon, Space>> \o v \o <<NL>> : v \in ColumnsValues}

WidthsLines ==
    {<<"columnWidths", Colon, Space>> \o v \o <<NL>> :
        v \in {<<>>, <<"x">>, <<"7", "0", Comma, "3", "0">>,
               <<"2", "0", Comma, "3", "0", Comma, "5", "0">>}}

\* The lines that may follow a marker line: none, or one line of content.
ContentLines == {<<"A">>, <<"k", Colon, "v">>}
SectionTexts == {<<>>} \cup {line \o <<NL>> : line \in ContentLines}

\* The texts of up to k sections, each a marker line and what follows it.
RECURSIVE SectionsUpTo(_)
SectionsUpTo(k) ==
    IF k = 0 THEN {<<>>}
    ELSE SectionsUpTo(k - 1)
         \cup {s \o <<Marker, NL>> \o t : s \in SectionsUpTo(k - 1), t \in SectionTexts}

\* Marker lines: the marker alone, with a title behind it, with a colon in the title.
MarkerLines == {<<Marker>>, <<Marker, "t">>, <<Marker, Colon, "t">>}

\* What may follow a marker line in an author's text: nothing, a line, a line that
\* reads as a config line, a line and three blank lines, three blank lines, two
\* lines with a blank line between them.
AuthorTexts ==
    {<<>>,
     <<"A", NL>>,
     <<"columns", Colon, Space, "3", NL>>,
     <<"A", NL, NL, NL, NL>>,
     <<NL, NL, NL>>,
     <<"A", NL, NL, "A", NL>>}

\* The texts of up to k sections as an author may write them.
RECURSIVE AuthorSectionsUpTo(_)
AuthorSectionsUpTo(k) ==
    IF k = 0 THEN {<<>>}
    ELSE AuthorSectionsUpTo(k - 1)
         \cup {s \o m \o <<NL>> \o t :
                   s \in AuthorSectionsUpTo(k - 1), m \in MarkerLines, t \in AuthorTexts}

\* The largest value the Default Columns slider gives (main.ts, line 202).
SliderMax == 6

\* The settings generateMultiColumnBlock may read: defaultColumns as the slider sets
\* it, 0, or missing from the stored data.
Settings ==
    {[showColumnBorders |-> FALSE]}
        \cup {[defaultColumns |-> n, showColumnBorders |-> FALSE] : n \in 0..SliderMax}

\* settings.defaultColumns || 2 (main.ts, line 70).
DefaultColumnsOr2(settings) ==
    IF "defaultColumns" \in DOMAIN settings /\ settings.defaultColumns # 0
    THEN settings.defaultColumns
    ELSE 2

\* The placeholder columns i .. columns - 1 of the loop of main.ts, lines 76-79.
RECURSIVE Placeholders(_, _)
Placeholders(i, columns) ==
    IF i >= columns THEN <<>>
    ELSE <<Marker, NL, "Column", Space>> \o NumberToString(i + 1)
             \o <<Space, "content", Space, "here", Dot, Dot, Dot, NL>>
             \o Placeholders(i + 1, columns)

\* A variant of generateMultiColumnBlock that takes defaultColumns as it is, 0 when
\* it is missing.
generateMultiColumnBlockNoDefault(settings) ==
    LET columns == IF "defaultColumns" \in DOMAIN settings THEN settings.defaultColumns
                   ELSE 0
    IN  <<Fence, Lang, NL, "columns", Colon, Space>> \o NumberToString(columns) \o <<NL>>
            \o Placeholders(0, columns) \o <<Fence, NL>>

\* generateMultiColumnBlock (main.ts, lines 68-83): the text the command inserts.
generateMultiColumnBlock(settings) ==
    LET columns == DefaultColumnsOr2(settings)
    IN  <<Fence, Lang, NL, "columns", Colon, Space>> \o NumberToString(columns) \o <<NL>>
            \o Placeholders(0, columns) \o <<Fence, NL>>

\* The source processCodeBlock receives for an inserted block: what stands between
\* the line of the opening fence and the newline before the closing fence.
BlockSource(blockText) == SubSeq(blockText, 4, Len(blockText) - 3)

\* The sources: header lines, sections, with or without their final newline, and
\* the blocks the insert command generates.
ParseInputs ==
    LET plain == {c \o w \o s : c \in ColumnsLines \cup {<<>>},
                                 w \in WidthsLines \cup {<<>>},
                                 s \in SectionsUpTo(MaxParseSections)}
        authored == {c \o s : c \in {<<>>, <<"columns", Colon, Space, "1", NL>>},
                              s \in AuthorSectionsUpTo(MaxParseSections)}
        whole == plain \cup authored
        generated == {BlockSource(generateMultiColumnBlock(settings)) : settings \in Settings}
    IN  whole \cup {StripFinalNL(t) : t \in whole} \cup generated

InitParse ==
    /\ ptext \in ParseInputs
    /\ pb = [config |-> DefaultConfig, columnContents |-> <<>>]
    /\ pparsed = [config |-> DefaultConfig, columnContents |-> <<>>]
    /\ pphase = "text"
    /\ pout = <<>>
    /\ MainIdle
    /\ InlineIdle

\* The serializer applied to what the parser returned.
ReserializeStep ==
    /\ pphase = "parsed"
    /\ pout' = Serialize(pparsed)
    /\ pphase' = "rewritten"
    /\ UNCHANGED <<pb, ptext, pparsed, mainVars, inline>>

NextParse == ParseStep \/ ReserializeStep

SpecParse == InitParse /\ [][NextParse]_vars

\* ------------------------------------ the inline editors and their debounce

\* The delay of debouncedSave (part_005, line 277) and of the write-back (line
\* 327), in milliseconds.
SaveDelay == 800
WriteDelay == 100

\* The changes typed in one run and the time a run lasts, in milliseconds.
MaxChanges == 3
MaxTime == 2000

\* What the clock advances by between two events.
Delays == {100, 300, 800}

\* The texts typed into a column's editor.
InlineValues == {<<>>, <<"x">>, <<"x", "y">>}

\* A variant of debouncedSave without the clearTimeout of line 274.
debouncedSaveNoClear(pending, now) == pending \cup {now + SaveDelay}

\* debouncedSave (part_005, lines 273-278): the pending timeouts after a call at
\* the time now.
debouncedSave(pending, now) == {now + SaveDelay}

\* No pending timeout is due before the time t: a timeout runs when it is due.
NothingDueBefore(t) ==
    /\ \A d \in inline.saveTimers : t <= d
    /\ \A k \in 1..Len(inline.writes) : t <= inline.writes[k].at

\* Time passes.
Advance(d) ==
    /\ inline.now + d <= MaxTime
    /\ NothingDueBefore(inline.now + d)
    /\ inline' = [inline EXCEPT !.now = @ + d]
    /\ UNCHANGED <<mainVars, pureVars>>

\* The onChange callback of the editor of column idx (part_005, lines 263-267).
InlineChange(idx, val) ==
    /\ inline.changes < MaxChanges
    /\ inline' = [inline EXCEPT !.columnContents = ArraySet(@, idx, val),
                                !.saveTimers = debouncedSave(@, inline.now),
                                !.lastChange = [at |-> inline.now, idx |-> idx, val |-> val],
                                !.burst = @ + 1,
                                !.changes = @ + 1]
    /\ UNCHANGED <<mainVars, pureVars>>

\* The callback of the timeout of debouncedSave (part_005, lines 275-277):
\* updateSourceInFile (lines 282-293) and updateCodeBlockInFile up to its setTimeout
\* (lines 295-312).
SaveTimeout(activeView) ==
    /\ inline.now \in inline.saveTimers
    /\ LET newSource == SourceText(inline.config, inline.columnContents)
           found == activeView /\ IndexOf(inline.doc, Wrap(inline.originalSource)) # 0
       IN  inline' = [inline EXCEPT
                         !.saveTimers = @ \ {inline.now},
                         !.writes = IF found
                                    THEN Append(@, [at |-> inline.now + WriteDelay,
                                                    originalBlock |-> Wrap(inline.originalSource),
                                                    newBlock |-> Wrap(newSource),
                                                    newSource |-> newSource])
                                    ELSE @,
                         !.saved = inline.burst,
                         !.burst = 0,
                         !.saves = @ + 1]
    /\ UNCHANGED <<mainVars, pureVars>>

\* The callback of the timeout of updateCodeBlockInFile (part_005, lines 312-327).
InlineWrite ==
    /\ inline.writes # <<>>
    /\ Head(inline.writes).at = inline.now
    /\ LET t == Head(inline.writes)
           i == IndexOf(inline.doc, t.originalBlock)
       IN  inline' = [inline EXCEPT
                         !.writes = Tail(@),
                         !.doc = IF i # 0 THEN ReplaceBlock(@, i, t.originalBlock, t.newBlock)
                                 ELSE @,
                         !.originalSource = IF i # 0 THEN t.newSource ELSE @]
    /\ UNCHANGED <<mainVars, pureVars>>

InitInline == MainIdle /\ PureIdle /\ InlineIdle

NextInline ==
    \/ \E d \in Delays : Advance(d)
    \/ \E idx \in 0..(inline.config.columns - 1), val \in InlineValues : InlineChange(idx, val)
    \/ \E activeView \in BOOLEAN : SaveTimeout(activeView)
    \/ InlineWrite

SpecInline == InitInline /\ [][NextInline]_vars

\* ------------------------------------------------- the parser's round trip

\* columnContents[index] ?? '' (lines 303 and 335): the text of a column.
TextOf(content) == IF content = undefined THEN <<>> ELSE content

\* No line of the text starts with the column marker.
NoMarkerLine(text) ==
    \A k \in 1..Len(Split(text, NL)) : ~StartsWithMarker(Split(text, NL)[k])

WellFormed(instance) ==
    /\ Len(instance.columnContents) = instance.config.columns
    /\ \A i \in 1..Len(instance.columnContents) : NoMarkerLine(instance.columnContents[i])

\* Every column text is empty or ends with a newline.
Terminated(instance) ==
    \A i \in 1..Len(instance.columnContents) :
        instance.columnContents[i] = <<>> \/ EndsWithNL(instance.columnContents[i])

\* parsed has the column count of instance and, column by column, its texts up to
\* the collapse of three or more trailing newlines to two.
SameUpToCollapse(instance, parsed) ==
    /\ parsed.config.columns = instance.config.columns
    /\ Len(parsed.columnContents) = Len(instance.columnContents)
    /\ \A i \in 1..Len(instance.columnContents) :
           CollapseTrailing(TextOf(parsed.columnContents[i]))
               = CollapseTrailing(instance.columnContents[i])

CommitStep == last'.seq = last.seq + 1 /\ last'.committed

\* This step ran the callback of the oldest timeout.
TimeoutStep == timers # <<>> /\ last'.seq = last.seq + 1 /\ last'.op = "timeout"

\* C2: a deferred write that does not find its wrapped original text in the
\* document replaces nothing and leaves the document as it is, and a commit issued
\* when the document does not hold the wrapped original text schedules no write and
\* leaves the document as it is.
C2_WriteBackMiss ==
    [][ /\ (TimeoutStep /\ IndexOf(doc, Head(timers).originalBlock) = 0)
            => (doc' = doc /\ originalSource' = originalSource)
        /\ (CommitStep /\ IndexOf(doc, Wrap(originalSource)) = 0)
            => (doc' = doc /\ timers' = timers) ]_vars

\* A deferred write has missed the block that the user had typed into.
C2_Witness ==
    /\ last.op = "timeout"
    /\ ~last.hit
    /\ nUserEdits > 0
    /\ IndexOf(doc, Wrap(originalSource)) = 0

\* The text of the document before and behind the span.
Before(content, span) == SubSeq(content, 1, span.start - 1)
Behind(content, span) == SubSeq(content, span.start + span.len, Len(content))

\* C3: a deferred write that replaces a block changes only the span of the block
\* the instance was parsed from; the text before it and the text behind it, another
\* block of the same text included, stay as they were.
C3_OnlyOwnSpan ==
    [][ (TimeoutStep /\ IndexOf(doc, Head(timers).originalBlock) # 0)
        => /\ Before(doc', block) = Before(doc, block)
           /\ Len(doc') >= Len(Behind(doc, block))
           /\ SubSeq(doc', Len(doc') - Len(Behind(doc, block)) + 1, Len(doc'))
                  = Behind(doc, block) ]_vars

\* C4: of two commits with the second issued while the first's timeout was
\* pending, and no edit by the user, the second's deferred write leaves its
\* serialization in the document.
C4_RapidCommitsChain ==
    [][ (TimeoutStep /\ Head(timers).behind = 1 /\ timers' = <<>> /\ nUserEdits = 0)
        => IndexOf(doc', Head(timers).newBlock) # 0 ]_vars

\* C5: the instance holds as many column texts as its config counts columns.
C5_CountInvariant == Len(columnContents) = config.columns

\* A removal through a stale rendering, whose index lies beyond the columns left.
C5_Witness ==
    /\ last.op = "removeColumn"
    /\ last.committed
    /\ last.a >= config.columns + 1
    /\ Len(columnContents) = config.columns

\* ------------------------------------------------------------------ widths

\* This step ran updateSourceInFile and its capture measured a laid-out container.
CaptureStep == CommitStep /\ last'.laidOut /\ Len(dom) > 0

\* The widths line of the source that the newest timeout will write.
SerializedWidths ==
    parseConfigAndContent(timers'[Len(timers')].newSource).config.columnWidths

\* C6: after every operation that commits, its capture of the rendered widths
\* included, columnWidths, if set, has one entry per column.
C6_WidthsLength ==
    (last.op \in {"addColumn", "removeColumn", "reorderColumn", "onMouseUp", "closeOverlay"}
        /\ last.committed
        /\ "columnWidths" \in DOMAIN config)
    => Len(config.columnWidths) = config.columns

\* C7: reorderColumn(from, to) on an instance with one width per column leaves
\* the instance, and the source it serializes, with the widths moved as the columns.
C7_ReorderWidthsFollow ==
    [][ (CommitStep /\ last'.op = "reorderColumn"
            /\ "columnWidths" \in DOMAIN config
            /\ Len(config.columnWidths) = config.columns
            /\ Len(columnContents) = config.columns)
        => /\ columnContents' = MoveColumn(columnContents, last'.a, last'.b)
           /\ config'.columnWidths = MoveWidth(config, last'.a, last'.b).columnWidths
           /\ last'.scheduled
                  => SerializedWidths = MeasuredWidths(config'.columnWidths) ]_vars

\* C8: addColumn, and removeColumn on more than one column, leave the instance,
\* and the source it serializes, with the equal split of its n columns.
C8_AddRemoveResetsWidths ==
    [][ (CommitStep /\ last'.op \in {"addColumn", "removeColumn"})
        => /\ "columnWidths" \in DOMAIN config'
           /\ config'.columnWidths
                  = Fill(config'.columns, (100 * Pct) \div config'.columns)
           /\ last'.scheduled
                  => SerializedWidths = MeasuredWidths(config'.columnWidths) ]_vars

\* Every rendered width is within one point of 100 / columns.
NearEqualSplit(widths, columns) ==
    \A k \in 1..Len(widths) : Abs(widths[k] * columns - 100 * Pct) <= Pct * columns

\* C9: a capture of rendered widths that are all within one point of the equal
\* split leaves columnWidths unset.
C9_WidthAntiJitter ==
    [][ (CaptureStep /\ NearEqualSplit(dom, config'.columns))
        => ~("columnWidths" \in DOMAIN config') ]_vars

\* C10 as the specification states it: a capture of rendered widths of which one
\* is more than one point away from the equal split makes columnWidths exactly
\* those widths.
C10_WidthAcceptanceAsStated ==
    [][ (CaptureStep /\ ~NearEqualSplit(dom, config'.columns))
        => config'.columnWidths = dom ]_vars

\* C10, amended: a capture of rendered widths of which one, rounded to a tenth of
\* a point, is more than one point away from the equal split makes columnWidths
\* the rendered widths rounded to a tenth, one entry per rendered column.
C10_WidthAcceptance ==
    [][ (CaptureStep /\ ~NearEqualSplit(MeasuredWidths(dom), config'.columns))
        => /\ Len(config'.columnWidths) = Len(dom)
           /\ \A k \in 1..Len(dom) : config'.columnWidths[k] = RoundTenth(dom[k]) ]_vars

\* A resize to 21.04 / 28.96 / 50 has been committed and stored as 21.0 / 29.0 / 50.0.
C10_Witness ==
    /\ last.op = "onMouseUp"
    /\ last.laidOut
    /\ dom = <<2104 * Hundredth, 2896 * Hundredth, 50 * Pct>>
    /\ config.columnWidths = <<21 * Pct, 29 * Pct, 50 * Pct>>

\* ---------------------------------------------------- adding and removing

\* This step ran a handler that returned before updateSourceInFile.
ReturnStep(op) == last'.seq = last.seq + 1 /\ last'.op = op /\ ~last'.committed

\* C11: removeColumn on an instance of one column or none leaves the columns,
\* the config and the original source as they were and sets no timeout.
C11_RemoveFloor ==
    [][ (config.columns <= 1 /\ last'.seq = last.seq + 1 /\ last'.op = "removeColumn")
        => /\ ~last'.committed
           /\ UNCHANGED <<columnContents, config, originalSource, timers, doc>> ]_vars

\* The delete button of a rendering of two columns was clicked on the one column
\* that an earlier removal had left.
C11_Witness ==
    /\ last.op = "removeColumn"
    /\ ~last.committed
    /\ config.columns = 1
    /\ Len(columnContents) = 1
    /\ timers = <<>>

\* The columns after are the columns before with one empty column put in at the
\* 0-based index at, the end when at lies beyond it.
InsertedAt(before, after, at) ==
    LET k == IF at < Len(before) THEN at ELSE Len(before)
    IN  /\ Len(after) = Len(before) + 1
        /\ TextOf(after[k + 1]) = <<>>
        /\ \A j \in 1..Len(before) :
               TextOf(after[IF j <= k THEN j ELSE j + 1]) = TextOf(before[j])

\* C12: addColumn(i, 'left') puts one empty column at index i and
\* addColumn(i, 'right') at index i + 1, at the end when that is beyond the last
\* column; the count grows by one and the columns there were keep their texts
\* and their order.
C12_InsertSemantics ==
    [][ \A i \in RenderedIndex, position \in {"left", "right"} :
            (\E laidOut, activeView \in BOOLEAN : addColumn(i, position, laidOut, activeView))
            => /\ config'.columns = config.columns + 1
               /\ InsertedAt(columnContents, columnContents',
                             IF position = "left" THEN i ELSE i + 1) ]_vars

\* A column has been added to the right of the last of two columns.
C12_Witness ==
    /\ last.op = "addColumn"
    /\ last.committed
    /\ last.a = 1
    /\ last.b = 2
    /\ config.columns = 3
    /\ columnContents = << <<"a", NL>>, <<"b", NL>>, <<>> >>

\* --------------------------------------------------------- parsing a source

\* The text of a columns line for Len(lines) columns and, for every content line,
\* a marker line and the content line, each ended by a newline.
RECURSIVE ScenarioSections(_)
ScenarioSections(lines) ==
    IF lines = <<>> THEN <<>>
    ELSE <<Marker, NL>> \o Head(lines) \o <<NL>> \o ScenarioSections(Tail(lines))

Scenario(lines) ==
    <<"columns", Colon, Space>> \o NumberToString(Len(lines)) \o <<NL>>
        \o ScenarioSections(lines)

\* C13: a source made of a columns: N line and N marker lines, each followed by one
\* content line, all ended by a newline, parses to N columns, each its content
\* line and one newline, and the serialization of these is the source without its
\* final newline.
C13_ScenarioA ==
    \A n \in 1..MaxParseColumns : \A lines \in [1..n -> ContentLines] :
        (pphase = "rewritten" /\ ptext = Scenario(lines))
        => /\ pparsed.config.columns = n
           /\ Len(pparsed.columnContents) = n
           /\ \A i \in 1..n : pparsed.columnContents[i] = lines[i] \o <<NL>>
           /\ pout = StripFinalNL(ptext)

\* The lines of a source that stand before its first marker line.
HeaderLines(text) ==
    LET lines == Split(text, NL)
        markers == {i \in 1..Len(lines) : StartsWithMarker(lines[i])}
    IN  SubSeq(lines, 1, IF markers = {} THEN Len(lines) ELSE SetMin(markers) - 1)

\* The values of the header lines of a source whose key is key.
HeaderValues(text, key) ==
    {Trim(Split(HeaderLines(text)[i], Colon)[2]) :
        i \in {j \in 1..Len(HeaderLines(text)) :
                  /\ Includes(HeaderLines(text)[j], Colon)
                  /\ Trim(Split(HeaderLines(text)[j], Colon)[1]) = <<key>>}}

\* C14: the parser returns a column count of at least 1, and of 2 when the source
\* has no columns line whose value parses as an integer.
C14_ParseColumnCount ==
    pphase \in {"parsed", "rewritten"}
    => /\ pparsed.config.columns >= 1
       /\ (\A v \in HeaderValues(ptext, "columns") : parseInt(v).nan)
              => pparsed.config.columns = 2

\* C15: after the parser, columnWidths is absent or has one entry per column; it
\* is absent when the source has no columnWidths line, and every column then
\* takes the equal split.
C15_ParseWidths ==
    pphase \in {"parsed", "rewritten"}
    => /\ \/ ~("columnWidths" \in DOMAIN pparsed.config)
          \/ Len(pparsed.config.columnWidths) = pparsed.config.columns
       /\ HeaderValues(ptext, "columnWidths") = {}
              => /\ ~("columnWidths" \in DOMAIN pparsed.config)
                 /\ \A i \in 0..(pparsed.config.columns - 1) :
                        ColumnWidth(pparsed.config, i) * pparsed.config.columns = 100 * Pct

\* ------------------------------------------------------ the original source

\* C16: a deferred write that replaces the block leaves originalSource equal to
\* the source it wrote, whose wrapped form the document then contains; a deferred
\* write that finds no block, and a commit, leave originalSource as it was.
C16_OriginalTracking ==
    [][ /\ (TimeoutStep /\ last'.hit)
            => /\ originalSource' = Head(timers).newSource
               /\ IndexOf(doc', Wrap(originalSource')) # 0
        /\ (TimeoutStep /\ ~last'.hit) => originalSource' = originalSource
        /\ CommitStep => originalSource' = originalSource ]_vars

\* A deferred write has replaced the block, and a later one has been dropped.
C16_Witness ==
    /\ last.op = "timeout"
    /\ ~last.hit
    /\ originalSource \notin Sources
    /\ IndexOf(doc, Wrap(originalSource)) # 0

\* C17: a commit leaves the document as it is and the timeouts already pending in
\* place, and sets at most one timeout of its own, for the source it serialized;
\* the callback of a timeout runs once, replaces at most one block, and sets no
\* further timeout, whether it found the block or not.
C17_DeferredWrite ==
    [][ /\ CommitStep
            => /\ doc' = doc
               /\ IF last'.scheduled
                  THEN /\ Len(timers') = Len(timers) + 1
                       /\ SubSeq(timers', 1, Len(timers)) = timers
                       /\ timers'[Len(timers')].newSource
                              = SourceText(config', columnContents')
                  ELSE timers' = timers
        /\ TimeoutStep
            => /\ timers' = Tail(timers)
               /\ doc' \in {doc, ReplaceBlock(doc, IndexOf(doc, Head(timers).originalBlock),
                                              Head(timers).originalBlock,
                                              Head(timers).newBlock)} ]_vars

\* Two commits have each their timeout pending.
C17_Witness ==
    /\ Len(timers) = 2
    /\ timers[1].newSource # timers[2].newSource
    /\ last.committed
    /\ last.scheduled

\* -------------------------------------------------------- the edit overlay

\* C18: closeOverlay(false), which the Cancel button and the Escape key call,
\* leaves every column text, the config, the original source, the document and
\* the pending timeouts as they were, whatever the buffer holds, and closes the
\* overlay.
C18_CancelEdit ==
    [][ (\E laidOut, activeView \in BOOLEAN : closeOverlay(FALSE, laidOut, activeView))
        => /\ UNCHANGED <<columnContents, config, originalSource, doc, timers>>
           /\ ~overlayEl'
           /\ ~last'.committed ]_vars

\* An edit has been cancelled with a buffer that differed from the column's text.
C18_Witness ==
    /\ last.op = "closeOverlay"
    /\ ~last.committed
    /\ ~overlayEl
    /\ currentEditValue # TextOf(At(columnContents, last.a))

\* C19: closeOverlay(true), which the Save button and the click outside call,
\* on the overlay of a column the instance has, puts the buffer as it is in the
\* place of that column's text, leaves the other columns as they were, and runs
\* updateSourceInFile once: at most one timeout is set, for the new source.
C19_SaveEdit ==
    [][ ((\E laidOut, activeView \in BOOLEAN : closeOverlay(TRUE, laidOut, activeView))
            /\ currentEditIndex < Len(columnContents))
        => /\ columnContents' = [columnContents EXCEPT ![currentEditIndex + 1] = currentEditValue]
           /\ CommitStep
           /\ ~overlayEl'
           /\ IF last'.scheduled
              THEN /\ timers' = Append(timers, timers'[Len(timers')])
                   /\ timers'[Len(timers')].newSource = SourceText(config', columnContents')
              ELSE timers' = timers ]_vars

\* The buffer "z", typed over the text of the second column, has been saved.
C19_Witness ==
    /\ last.op = "closeOverlay"
    /\ last.committed
    /\ last.scheduled
    /\ last.a = 1
    /\ columnContents = << <<"a", NL>>, <<"z">> >>

\* ------------------------------------------------------------------ the drag

\* C20: dragstart, dragenter, dragover, dragleave, a drop on the dragged column,
\* a drop with no dragstart recorded on the instance, dragend and the render it
\* sets leave the columns, the config and the document as they were and set no
\* timeout; a drop on another column than the dragged one goes on to
\* updateSourceInFile.
C20_DragNoOps ==
    [][ \A i \in RenderedIndex :
          /\ ( \/ handleDragStart(i)
               \/ handleDragEnter(i)
               \/ handleDragOver(i)
               \/ \E leaving \in BOOLEAN : handleDragLeave(i, leaving)
               \/ handleDragEnd
               \/ RenderTimeout
               \/ /\ draggedColumnIndex = null \/ draggedColumnIndex = i
                  /\ \E laidOut, activeView \in BOOLEAN : handleDrop(i, laidOut, activeView) )
             => UNCHANGED <<columnContents, config, originalSource, doc, timers, last>>
          /\ ( /\ draggedColumnIndex # null
               /\ draggedColumnIndex # i
               /\ \E laidOut, activeView \in BOOLEAN : handleDrop(i, laidOut, activeView) )
             => (CommitStep /\ last'.op = "reorderColumn" /\ doc' = doc) ]_vars

\* A column has been dragged over another one and dropped on itself.
C20_Witness ==
    /\ drag = "dropped"
    /\ draggedColumnIndex # null
    /\ dropTargetIndex # null
    /\ last.seq = 0
    /\ timers = <<>>
    /\ nOps = 1

\* ------------------------------------------------------------------- resize

\* C21: every mouseup that ends a resize, with or without a move before it, goes
\* on to the save: the widths of all the rendered columns are captured
\* (updateColumnWidthsInConfig), the source is serialized and handed to
\* updateCodeBlockInFile, and the resize is over; no mouseup returns without it.
C21_ResizeAlwaysCommits ==
    [][ (\E laidOut, activeView \in BOOLEAN : onMouseUp(laidOut, activeView)) =>
          /\ CommitStep
          /\ last'.op = "onMouseUp"
          /\ ~resize'.active
          /\ config' = updateColumnWidthsInConfig(config, dom, last'.laidOut)
          /\ (last'.laidOut /\ HasCustomWidths(MeasuredWidths(dom), config.columns))
                => /\ config'.columnWidths = MeasuredWidths(dom)
                   /\ Len(config'.columnWidths) = Len(dom)
          /\ \/ timers' = timers
             \/ /\ Len(timers') = Len(timers) + 1
                /\ timers'[Len(timers')].newSource = SourceText(config', columnContents')
          /\ last'.scheduled => timers' # timers ]_vars

\* A resize of the first divider of three columns was released without a move
\* and its write-back is pending.
C21_Witness ==
    /\ last.op = "onMouseUp"
    /\ last.committed
    /\ last.b = 0
    /\ last.scheduled
    /\ Len(dom) = 3
    /\ Len(timers) = 1

\* ------------------------------------------------------------------ reorder

\* C22: a drop that moves the column at fromIndex to toIndex, both of them
\* indices of the model, leaves the moved text at toIndex, the other columns in
\* the order they had, and the count of columns as it was.
C22_ReorderIsMove ==
    [][ \A toIndex \in RenderedIndex :
          ( /\ draggedColumnIndex # null
            /\ draggedColumnIndex # toIndex
            /\ draggedColumnIndex < Len(columnContents)
            /\ toIndex < Len(columnContents)
            /\ \E laidOut, activeView \in BOOLEAN : handleDrop(toIndex, laidOut, activeView) )
          => /\ Len(columnContents') = Len(columnContents)
             /\ config'.columns = config.columns
             /\ At(columnContents', toIndex) = At(columnContents, draggedColumnIndex)
             /\ SpliceRemove(columnContents', toIndex)
                    = SpliceRemove(columnContents, draggedColumnIndex) ]_vars

\* The first of three columns has been dropped on the third.
C22_Witness ==
    /\ last.op = "reorderColumn"
    /\ last.committed
    /\ last.a = 0
    /\ last.b = 2
    /\ Len(columnContents) = 3
    /\ columnContents = <<<<"b", NL>>, <<"c", NL>>, <<"a", NL>>>>

\* The container shows the model: as many columns as the config has, each with
\* the text the model holds at its index.
ViewCurrent ==
    /\ Len(dom) = config.columns
    /\ rendered = loadColumnContents(config, columnContents)

\* C23: a drop of the dragged column on another one applies reorderColumn with the
\* two indices and goes on to the save, and once a reorder has been committed the
\* next gesture the user begins finds the container rendered from the reordered
\* model.
C23_ReorderThenRender ==
    [][ /\ \A j \in RenderedIndex :
             ( /\ draggedColumnIndex # null
               /\ draggedColumnIndex # j
               /\ \E laidOut, activeView \in BOOLEAN : handleDrop(j, laidOut, activeView) )
             => /\ CommitStep
                /\ last'.op = "reorderColumn"
                /\ last'.a = draggedColumnIndex
                /\ last'.b = j
                /\ columnContents' =
                       NormalizeColumns(MoveColumn(columnContents, draggedColumnIndex, j),
                                        config'.columns)
        /\ (last.op = "reorderColumn" /\ last.committed /\ nOps' = nOps + 1)
             => ViewCurrent ]_vars

\* C24: every dragend, after a drop or without one, leaves draggedColumnIndex and
\* dropTargetIndex null and no drag in progress; a drop that comes with no drag
\* in progress changes nothing and sets no timeout.
C24_DragEndResets ==
    [][ /\ handleDragEnd
             => (drag' = "idle" /\ draggedColumnIndex' = null /\ dropTargetIndex' = null)
        /\ drag' = "idle" => (draggedColumnIndex' = null /\ dropTargetIndex' = null)
        /\ \A j \in RenderedIndex :
             (drag = "idle" /\ \E laidOut, activeView \in BOOLEAN :
                                  handleDrop(j, laidOut, activeView))
             => UNCHANGED <<columnContents, config, originalSource, doc, timers, last>> ]_vars

\* A drag that entered another column and was dropped there has ended.
C24_Witness ==
    /\ drag = "idle"
    /\ last.op = "reorderColumn"
    /\ last.committed
    /\ renderTimers = 1
    /\ draggedColumnIndex = null
    /\ dropTargetIndex = null

\* C25: a mousemove of a resize on the divider after column index changes the
\* flex-basis of the columns index and index + 1 only, to two widths whose sum
\* is the sum the two columns had at mousedown; the width of no other rendered
\* column changes (and of none at all once the container has been rebuilt under
\* the gesture).
C25_NeighboursOnly ==
    [][ \A deltaPercent \in Deltas :
          onMouseMove(deltaPercent) =>
            LET pair == ResizedPair(resize, deltaPercent)
            IN  /\ pair[1] + pair[2] = resize.left + resize.right
                /\ Len(dom') = Len(dom)
                /\ \A k \in 1..Len(dom) :
                      (resize.stale \/ k \notin {resize.index + 1, resize.index + 2})
                          => dom'[k] = dom[k]
                /\ ~resize.stale
                      => /\ dom'[resize.index + 1] = pair[1]
                         /\ dom'[resize.index + 2] = pair[2]
                         /\ dom'[resize.index + 1] + dom'[resize.index + 2]
                                = resize.left + resize.right ]_vars

\* The first divider of three columns has been moved: the two columns beside it
\* have new widths, the third has the width it had.
C25_Witness ==
    /\ resize.active
    /\ ~resize.stale
    /\ resize.moves = 1
    /\ resize.index = 0
    /\ Len(dom) = 3
    /\ dom[1] # resize.left
    /\ dom[2] # resize.right
    /\ dom[3] = 50 * Pct

\* C26: for every pair of widths at mousedown and every move of the pointer,
\* neither of the two widths a mousemove sets is below minWidthPercent (100px as a
\* percentage of the track at mousedown); a move that would take a column below
\* it sets that column to the minimum and the other to the rest, and every move
\* sets the two widths.
C26_ResizeClamp ==
    [][ \A deltaPercent \in Deltas :
          onMouseMove(deltaPercent) =>
            LET pair == ResizedPair(resize, deltaPercent)
            IN  /\ pair[1] >= resize.min
                /\ pair[2] >= resize.min
                /\ resize.left + deltaPercent < resize.min => pair[1] = resize.min
                /\ resize.right - deltaPercent < resize.min => pair[2] = resize.min
                /\ ( /\ resize.left + deltaPercent >= resize.min
                      /\ resize.right - deltaPercent >= resize.min )
                      => pair = <<resize.left + deltaPercent, resize.right - deltaPercent>>
                /\ ~resize.stale
                      => /\ dom'[resize.index + 1] = pair[1]
                         /\ dom'[resize.index + 2] = pair[2] ]_vars

\* A column of 30% on a track of 500px was dragged 19.95 points narrower and
\* stands at the minimum of 20%, its neighbour at the rest.
C26_Witness ==
    /\ resize.active
    /\ ~resize.stale
    /\ resize.moves = 1
    /\ resize.min = 20 * Pct
    /\ resize.left = 30 * Pct
    /\ resize.right = 50 * Pct
    /\ dom[resize.index + 1] = 20 * Pct
    /\ dom[resize.index + 2] = 60 * Pct

\* ------------------------------------------------- the parser, line by line

\* The lines of a source that begin with the marker.
MarkerLineIndices(lines) == {i \in 1..Len(lines) : StartsWithMarker(lines[i])}

\* The lines the loop takes as markers: those that begin with the marker, from the
\* first of them that the test for ':' of line 29 lets through.
SeenMarkers(lines) ==
    LET through == {i \in MarkerLineIndices(lines) : ~Includes(lines[i], Colon)}
    IN  IF through = {} THEN {}
        ELSE {i \in MarkerLineIndices(lines) : i >= SetMin(through)}

\* The k-th of a set of line numbers, and the line number that ends its section.
NthLine(markers, k) ==
    CHOOSE i \in markers : Cardinality({j \in markers : j < i}) = k - 1
SectionEnd(lines, markers, k) ==
    IF k < Cardinality(markers) THEN NthLine(markers, k + 1) - 1 ELSE Len(lines)

\* Lines, each followed by a newline.
RECURSIVE JoinLines(_)
JoinLines(lines) ==
    IF lines = <<>> THEN <<>> ELSE Head(lines) \o <<NL>> \o JoinLines(Tail(lines))

\* The lines between the k-th marker and the next, each followed by a newline.
SectionText(lines, markers, k) ==
    JoinLines(SubSeq(lines, NthLine(markers, k) + 1, SectionEnd(lines, markers, k)))

\* The lines before the first marker.
HeaderText(lines, markers) ==
    JoinLines(SubSeq(lines, 1, IF markers = {} THEN Len(lines) ELSE SetMin(markers) - 1))

\* C27: the config the parser returns is the config of the lines before the first
\* marker it has seen, whatever follows; every section with lines after that
\* marker is returned as its lines, each followed by a newline (lines of the form
\* key: value among them), up to the collapse of its trailing newlines.
C27_ColumnModeVerbatim ==
    pphase \in {"parsed", "rewritten"}
    => LET lines == Split(ptext, NL)
           markers == SeenMarkers(lines)
       IN  /\ pparsed.config = parseConfigAndContent(HeaderText(lines, markers)).config
           /\ \A k \in 1..Cardinality(markers) :
                 SectionText(lines, markers, k) # <<>>
                 => /\ k <= Len(pparsed.columnContents)
                    /\ pparsed.columnContents[k]
                          = CollapseTrailing(SectionText(lines, markers, k))

\* A line columns: 3 behind the first marker has been returned as the text of the
\* first column, and the count is the default.
C27_Witness ==
    /\ pphase = "parsed"
    /\ ptext = <<Marker, NL, "columns", Colon, Space, "3">>
    /\ pparsed.config.columns = 2
    /\ pparsed.columnContents = <<<<"columns", Colon, Space, "3", NL>>, <<>>>>

\* C28: every line that begins with the marker starts the column whose index is
\* the number of such lines before it: the lines up to the next such line are the
\* text of that column, no returned text holds a marker line, and there are no
\* more columns than such lines or than the count.
C28_MarkerLines ==
    pphase \in {"parsed", "rewritten"}
    => LET lines == Split(ptext, NL)
           markers == MarkerLineIndices(lines)
           columns == pparsed.columnContents
       IN  /\ \A k \in 1..Cardinality(markers) :
                 SectionText(lines, markers, k) # <<>>
                 => /\ k <= Len(columns)
                    /\ columns[k] = CollapseTrailing(SectionText(lines, markers, k))
           /\ \A k \in 1..Len(columns) :
                 columns[k] # undefined => ~Includes(columns[k], Marker)
           /\ Len(columns) <= Cardinality(markers) \/ Len(columns) <= pparsed.config.columns

\* The greater of two numbers.
Max(x, y) == IF x >= y THEN x ELSE y

\* The number of the last marker that has a line behind it, 0 when none has.
LastFilled(lines, markers) ==
    SetMax({0} \cup {k \in 1..Cardinality(markers) : SectionText(lines, markers, k) # <<>>})

C30_TrailingCollapse ==
    pphase \in {"parsed", "rewritten"}
    => LET lines == Split(ptext, NL)
           markers == SeenMarkers(lines)
           columns == pparsed.columnContents
       IN  \A k \in 1..Len(columns) :
             columns[k] # undefined
             => /\ TrailingNL(columns[k]) < 3
                /\ CollapseTrailing(columns[k]) = columns[k]
                /\ (k <= Cardinality(markers) /\ SectionText(lines, markers, k) # <<>>)
                     => LET raw == SectionText(lines, markers, k)
                        IN  IF TrailingNL(raw) >= 3
                            THEN columns[k] = SubSeq(raw, 1, Len(raw) - TrailingNL(raw))
                                                 \o <<NL, NL>>
                            ELSE columns[k] = raw

\* A line followed by three blank lines has been returned with two newlines
\* behind it, and two lines with a blank line between them as they were.
C30_Witness ==
    /\ pphase = "parsed"
    /\ ptext = <<Marker, NL, "A", NL, NL, "A", NL, Marker, NL, "A", NL, NL, NL, NL>>
    /\ pparsed.columnContents = <<<<"A", NL, NL, "A", NL>>, <<"A", NL, NL>>>>

\* ------------------------------------------------------ one gesture at a time

\* The gestures of the instance that are in progress.
ActiveGestures ==
    (IF overlayEl THEN {"edit"} ELSE {})
        \cup (IF drag # "idle" \/ draggedColumnIndex # null THEN {"reorder"} ELSE {})
        \cup (IF resize.active THEN {"resize"} ELSE {})

C39_OverlayState ==
    /\ overlayEl <=> currentEditIndex # null
    /\ ~overlayEl =>
           ~ENABLED (\E commit, laidOut, activeView \in BOOLEAN :
                         closeOverlay(commit, laidOut, activeView))
    /\ overlayEl =>
           /\ ENABLED openEditorOverlay(currentEditIndex)
           /\ ~ENABLED (openEditorOverlay(currentEditIndex) /\ overlayVars' # overlayVars)

\* The overlay is open on the first column and its buffer no longer holds the
\* column's text.
C39_Witness ==
    /\ overlayEl
    /\ currentEditIndex = 0
    /\ currentEditValue = <<"z">>
    /\ At(columnContents, 0) # <<"z">>

\* ------------------------------------------- a press outside the open overlay

\* C32: a press outside the open overlay saves the buffer and closes the overlay
\* (the commit of closeOverlay leaves no overlay), and when the pressed control is
\* an add or a delete button, whose commit follows while the write of the edit is
\* still pending, the write of that commit finds its block and puts the text with
\* the edit and the added or removed column into the document.
C32_PressThenControl ==
    [][ /\ (CommitStep /\ last'.op = "closeOverlay")
            => (~overlayEl' /\ currentEditIndex' = null
                /\ At(columnContents', currentEditIndex) \in {currentEditValue, undefined})
        /\ (TimeoutStep /\ nUserEdits = 0
            /\ Head(timers).op \in {"addColumn", "removeColumn"}
            /\ Head(timers).after = "closeOverlay")
            => (last'.hit /\ IndexOf(doc', Head(timers).newBlock) # 0) ]_vars

\* ------------------------------------------------ the snapshot of a commit

\* C37: the timeout a commit sets holds the wrapped originalSource and the wrapped
\* serialization of the instance as they are when the commit is issued; no later
\* step changes a pending timeout; and the callback looks for and inserts these
\* two texts, whatever the instance and originalSource have become.
C37_SnapshotAtCommit ==
    [][ /\ (CommitStep /\ last'.scheduled)
            => /\ Len(timers') = Len(timers) + 1
               /\ timers'[Len(timers')].originalBlock = Wrap(originalSource)
               /\ timers'[Len(timers')].newBlock = Wrap(SourceText(config', columnContents'))
        /\ (timers # <<>> /\ ~TimeoutStep)
            => (Len(timers') >= Len(timers) /\ SubSeq(timers', 1, Len(timers)) = timers)
        /\ TimeoutStep
            => LET t == Head(timers)
                   i == IndexOf(doc, t.originalBlock)
               IN  /\ timers' = Tail(timers)
                   /\ doc' = IF i = 0 THEN doc
                             ELSE ReplaceBlock(doc, i, t.originalBlock, t.newBlock) ]_vars

\* A write has put the text of its commit into the document after a later commit
\* had changed the instance: the instance no longer serializes to what was written.
C37_Witness ==
    /\ last.op = "timeout"
    /\ last.hit
    /\ timers # <<>>
    /\ IndexOf(doc, Wrap(originalSource)) # 0
    /\ originalSource # SourceText(config, columnContents)
    /\ Head(timers).newSource = SourceText(config, columnContents)

\* ------------------------------------------------ commits that keep the columns

\* How many of the columns hold the text.
Occurrences(contents, text) ==
    Cardinality({k \in 1..Len(contents) : TextOf(contents[k]) = text})

\* The texts of the columns.
TextsOf(contents) == {TextOf(contents[k]) : k \in 1..Len(contents)}

\* C36: the commit that ends a resize, that saves the edit of column i or that
\* reorders keeps the number of columns and every column text but that of the
\* edited column i (a reorder keeps every text as often as it occurred, the other
\* two keep every text in its place), and the text it hands to the write-back holds
\* every one of them.
C36_NothingDiscarded ==
    [][ (CommitStep /\ last'.op \in {"onMouseUp", "closeOverlay", "reorderColumn"})
        => /\ Len(columnContents') = Len(columnContents)
           /\ last'.op = "reorderColumn"
                  => \A text \in TextsOf(columnContents) :
                         Occurrences(columnContents', text) = Occurrences(columnContents, text)
           /\ last'.op # "reorderColumn"
                  => \A k \in 1..Len(columnContents) :
                         (last'.op = "closeOverlay" /\ k = last'.a + 1)
                             \/ TextOf(columnContents'[k]) = TextOf(columnContents[k])
           /\ last'.scheduled
                  => \A k \in 1..Len(columnContents) :
                         (last'.op = "closeOverlay" /\ k = last'.a + 1)
                             \/ IndexOf(timers'[Len(timers')].newBlock,
                                        <<Marker, NL>> \o TextOf(columnContents[k])) # 0 ]_vars

\* ------------------------------------------ the header of what is written

\* C35: every text a write-back puts into the document has one columns line, and
\* its value is the number of the text's marker lines.
C35_CountMatchesMarkers ==
    [][ (TimeoutStep /\ last'.hit)
        => LET text == Head(timers).newSource
           IN  HeaderValues(text, "columns")
                   = {NumberToString(Cardinality(MarkerLineIndices(Split(text, NL))))} ]_vars

\* ------------------------------------------- the serializer's output, parsed

\* C38: the text serialized from the parse of a source is a fixed point: parsing
\* it and serializing the result gives the same text again.
C38_Idempotent ==
    pphase = "rewritten" => Serialize(parseConfigAndContent(pout)) = pout

\* ------------------------------------------------------ the inserted block

\* C34: the block the insert command generates parses to defaultColumns columns, 2
\* when the setting is 0 or missing; every column holds its placeholder line, none
\* is empty, and the column count is the number of marker lines of the block.
C34_InsertedBlock ==
    \A settings \in Settings :
        (pphase \in {"parsed", "rewritten"}
         /\ ptext = BlockSource(generateMultiColumnBlock(settings)))
        => LET n == IF "defaultColumns" \in DOMAIN settings /\ settings.defaultColumns >= 1
                    THEN settings.defaultColumns
                    ELSE 2
           IN  /\ pparsed.config.columns = n
               /\ Len(pparsed.columnContents) = n
               /\ \A i \in 1..n :
                      /\ pparsed.columnContents[i] \notin {<<>>, undefined}
                      /\ pparsed.columnContents[i]
                             = <<"Column", Space>> \o NumberToString(i)
                                   \o <<Space, "content", Space, "here", Dot, Dot, Dot, NL>>
               /\ Cardinality(MarkerLineIndices(Split(ptext, NL))) = n

\* The block generated with no stored defaultColumns has been parsed to two columns.
C34_Witness ==
    /\ pphase = "parsed"
    /\ ptext = BlockSource(generateMultiColumnBlock([showColumnBorders |-> FALSE]))
    /\ Len(pparsed.columnContents) = 2
    /\ pparsed.config.columns = 2

\* ------------------------------------------------- the debounce of the save

\* This step ran the callback of debouncedSave; this step was a change.
SaveStep == inline'.saves = inline.saves + 1
ChangeStep == inline'.changes = inline.changes + 1

====
